---------------------------- MODULE Spec2Model ----------------------------
(***************************************************************************)
(* A model of the xml_parser crate: the tree builder of src/src/lib.rs     *)
(* (parse_xml, parse_element, parse_opening_tag, parse_attributes), the    *)
(* file entry point from_path and the two queries get_contents_of and      *)
(* get_nodes.                                                              *)
(*                                                                         *)
(* Text is a sequence of one-character strings, so that trim and           *)
(* trim_matches are computed.  The pest grammar (grammar.pest) is not part *)
(* of the sources at hand: a text is represented by what Grammar::parse    *)
(* makes of it, a production tree (pest Pairs) of the shape the grammar    *)
(* section of the specification describes, or a failure.                   *)
(***************************************************************************)
EXTENDS Naturals, Sequences, FiniteSets

(***************************************************************************)
(* Bounds of the model.                                                    *)
(***************************************************************************)
\* The number of productions (elements and content runs) of a document.
MaxNodes == 4
\* The number of attributes of a tag.
MaxAttrs == 2
\* The number of productions of a tree handed to the builder alone.
MaxBuilderNodes == 3

(***************************************************************************)
(* Characters and strings.                                                 *)
(***************************************************************************)
Quote == "\""

NameA == <<"a">>
NameB == <<"b">>
NameR == <<"r">>
NameK == <<"k">>
\* a legal tag name that spells the word of the sentinel
NameComment == <<"c", "o", "m", "m", "e", "n", "t">>

\* char::is_whitespace, on the characters of the model
IsWhitespace(c) == c \in {" ", "\t", "\n", "\r"}

RECURSIVE TrimStart(_)
TrimStart(s) ==
    IF s = <<>> THEN <<>>
    ELSE IF IsWhitespace(Head(s)) THEN TrimStart(Tail(s)) ELSE s

RECURSIVE TrimEnd(_)
TrimEnd(s) ==
    IF s = <<>> THEN <<>>
    ELSE IF IsWhitespace(s[Len(s)]) THEN TrimEnd(SubSeq(s, 1, Len(s) - 1)) ELSE s

\* str::trim
Trim(s) == TrimEnd(TrimStart(s))

RECURSIVE TrimStartMatches(_, _)
TrimStartMatches(s, c) ==
    IF s = <<>> THEN <<>>
    ELSE IF Head(s) = c THEN TrimStartMatches(Tail(s), c) ELSE s

RECURSIVE TrimEndMatches(_, _)
TrimEndMatches(s, c) ==
    IF s = <<>> THEN <<>>
    ELSE IF s[Len(s)] = c THEN TrimEndMatches(SubSeq(s, 1, Len(s) - 1), c) ELSE s

\* str::trim_matches(c): every leading and every trailing c is removed
TrimMatches(s, c) == TrimEndMatches(TrimStartMatches(s, c), c)

(***************************************************************************)
(* Productions: a pest Pair is its rule, its text (as_str) and its inner   *)
(* pairs (into_inner).  The text of a composite pair is never read by the  *)
(* builder and is left empty.                                              *)
(***************************************************************************)
Pair(rule, str, inner) == [rule |-> rule, str |-> str, inner |-> inner]

(***************************************************************************)
(* XmlNode, ParseError and Result.                                         *)
(***************************************************************************)
XmlNode(name, content, attributes, children) ==
    [name |-> name, content |-> content,
     attributes |-> attributes, children |-> children]

NoNode == XmlNode(<<>>, <<>>, <<>>, <<>>)

TagMismatch(opening, ending) ==
    [kind |-> "TagMismatch", opening |-> opening, ending |-> ending]
SyntaxError == [kind |-> "SyntaxError", opening |-> <<>>, ending |-> <<>>]
IoError == [kind |-> "IoError", opening |-> <<>>, ending |-> <<>>]
InternalError == [kind |-> "InternalError", opening |-> <<>>, ending |-> <<>>]
NoError == [kind |-> "None", opening |-> <<>>, ending |-> <<>>]

\* Result<XmlNode, ParseError>; "Panic" is a failed unwrap()
Ok(node) == [tag |-> "Ok", node |-> node, err |-> NoError]
Err(e) == [tag |-> "Err", node |-> NoNode, err |-> e]
Panic == [tag |-> "Panic", node |-> NoNode, err |-> NoError]

\* What a call of the builder gives: its result and, in order, the paths of
\* the productions whose rule it looked at.
Ret(res, visited) == [res |-> res, visited |-> visited]

\* "#comment"
COMMENT_NAME == <<"#", "c", "o", "m", "m", "e", "n", "t">>

(***************************************************************************)
(* The tree builder.                                                       *)
(***************************************************************************)
\* attribute_pair without the trim_matches: the value keeps its quotes
attribute_pair_quoted(attr) ==
    [key |-> attr.inner[1].str, value |-> attr.inner[2].str]

\* One attribute production: (key, value)
attribute_pair(attr) ==
    [key |-> attr.inner[1].str,
     value |-> TrimMatches(attr.inner[2].str, Quote)]

RECURSIVE parse_attributes(_)
parse_attributes(pairs) ==
    IF pairs = <<>> THEN <<>>
    ELSE LET attr == Head(pairs)
         IN  (IF attr.rule = "attribute" THEN <<attribute_pair(attr)>> ELSE <<>>)
             \o parse_attributes(Tail(pairs))

\* .filter(|p| p.as_rule() != Rule::WHITESPACE)
RECURSIVE FilterWhitespace(_)
FilterWhitespace(pairs) ==
    IF pairs = <<>> THEN <<>>
    ELSE (IF Head(pairs).rule # "WHITESPACE" THEN <<Head(pairs)>> ELSE <<>>)
         \o FilterWhitespace(Tail(pairs))

\* Ok((name, attrs)) or Err(SyntaxError)
parse_opening_tag(pair) ==
    LET inner == FilterWhitespace(pair.inner)
    IN  IF inner = <<>>
        THEN [ok |-> FALSE, name |-> <<>>, attrs |-> <<>>]
        ELSE [ok |-> TRUE, name |-> Head(inner).str,
              attrs |-> parse_attributes(Tail(inner))]

\* closing_tag_arm with the two names of the error exchanged
closing_tag_arm_swapped(item, st) ==
    IF item.inner = <<>>
    THEN Panic
    ELSE LET name_close == item.inner[1].str
         IN  IF name_close # st.name_open
             THEN Err(TagMismatch(name_close, st.name_open))
             ELSE Ok(XmlNode(st.name_open, st.content, st.attrs, st.children))

\* closing_tag_arm without the comparison of the names
closing_tag_arm_unchecked(item, st) ==
    IF item.inner = <<>>
    THEN Panic
    ELSE Ok(XmlNode(st.name_open, st.content, st.attrs, st.children))

\* The closing_tag arm of the loop, opening name and accumulators in st.
closing_tag_arm(item, st) ==
    IF item.inner = <<>>
    THEN Panic
    ELSE LET name_close == item.inner[1].str
         IN  IF name_close # st.name_open
             THEN Err(TagMismatch(st.name_open, name_close))
             ELSE Ok(XmlNode(st.name_open, st.content, st.attrs, st.children))

\* content_arm that assigns the run instead of appending it
content_arm_replace(content, item) == Trim(item.str)

\* The content arm: content.push_str(item.as_str().trim())
content_arm(content, item) == content \o Trim(item.str)

\* loop_exhausted with the other classification
loop_exhausted_internal == Err(InternalError)

\* The value of a loop that ran out of inner productions.
loop_exhausted == Err(SyntaxError)

\* comment_arm that names the node with a legal tag name
comment_arm_plain(pair) == Ok(XmlNode(NameComment, pair.str, <<>>, <<>>))

\* The comment arm of parse_element.
comment_arm(pair) == Ok(XmlNode(COMMENT_NAME, pair.str, <<>>, <<>>))

\* The empty_element_tag arm of parse_element.
empty_element_tag_arm(pair) ==
    IF pair.inner = <<>>
    THEN Panic
    ELSE Ok(XmlNode(pair.inner[1].str, <<>>, parse_attributes(Tail(pair.inner)), <<>>))

RECURSIVE parse_element(_, _)
RECURSIVE for_item(_, _, _, _)

\* for_item that compares the element's own closing tag before it builds the
\* nested elements
for_item_own_tag_first(inner, i, path, st) ==
    LET last == inner[Len(inner)]
    IN  IF /\ i = 2
           /\ last.rule = "closing_tag"
           /\ last.inner # <<>>
           /\ last.inner[1].str # st.name_open
        THEN Ret(Err(TagMismatch(st.name_open, last.inner[1].str)),
                 Append(st.visited, Append(path, Len(inner))))
        ELSE IF i > Len(inner)
        THEN Ret(Err(SyntaxError), st.visited)
        ELSE LET item == inner[i]
                 p == Append(path, i)
                 seen == Append(st.visited, p)
             IN  CASE item.rule = "content" ->
                        for_item(inner, i + 1, path,
                                 [st EXCEPT !.content = @ \o Trim(item.str),
                                            !.visited = seen])
                   [] item.rule = "element" ->
                        LET r == parse_element(item, p)
                        IN  IF r.res.tag = "Ok"
                            THEN for_item(inner, i + 1, path,
                                          [st EXCEPT !.children = Append(@, r.res.node),
                                                     !.visited = seen \o r.visited])
                            ELSE Ret(r.res, seen \o r.visited)
                   [] item.rule = "closing_tag" ->
                        Ret(Ok(XmlNode(st.name_open, st.content, st.attrs, st.children)),
                            seen)
                   [] OTHER ->
                        for_item(inner, i + 1, path, [st EXCEPT !.visited = seen])

\* for item in inner { match item.as_rule() ... }: inner is the full_element's
\* inner pairs, i the next one, path the full_element's path.
for_item(inner, i, path, st) ==
    IF i > Len(inner)
    THEN Ret(loop_exhausted, st.visited)
    ELSE LET item == inner[i]
             p == Append(path, i)
             seen == Append(st.visited, p)
         IN  CASE item.rule = "content" ->
                    for_item(inner, i + 1, path,
                             [st EXCEPT !.content = content_arm(@, item),
                                        !.visited = seen])
               [] item.rule = "element" ->
                    LET r == parse_element(item, p)
                    IN  IF r.res.tag = "Ok"
                        THEN for_item(inner, i + 1, path,
                                      [st EXCEPT !.children = Append(@, r.res.node),
                                                 !.visited = seen \o r.visited])
                        ELSE Ret(r.res, seen \o r.visited)
               [] item.rule = "closing_tag" ->
                    Ret(closing_tag_arm(item, st), seen)
               [] OTHER ->
                    for_item(inner, i + 1, path, [st EXCEPT !.visited = seen])

parse_element(element, path) ==
    IF element.inner = <<>>
    THEN Ret(Err(SyntaxError), <<>>)
    ELSE LET pair == element.inner[1]
             p == Append(path, 1)
         IN  CASE pair.rule = "full_element" ->
                    IF pair.inner = <<>>
                    THEN Ret(Err(SyntaxError), <<p>>)
                    ELSE LET opening == parse_opening_tag(pair.inner[1])
                         IN  IF ~opening.ok
                             THEN Ret(Err(SyntaxError), <<p, Append(p, 1)>>)
                             ELSE for_item(pair.inner, 2, p,
                                           [name_open |-> opening.name,
                                            attrs |-> opening.attrs,
                                            children |-> <<>>,
                                            content |-> <<>>,
                                            visited |-> <<p, Append(p, 1)>>])
               [] pair.rule = "empty_element_tag" ->
                    Ret(empty_element_tag_arm(pair), <<p>>)
               [] pair.rule = "comment" ->
                    Ret(comment_arm(pair), <<p>>)
               [] OTHER ->
                    Ret(Err(InternalError), <<p>>)

\* root.into_inner().find(|p| p.as_rule() == Rule::element): its index, or 0
RECURSIVE FindElement(_, _)
FindElement(inner, i) ==
    IF i > Len(inner) THEN 0
    ELSE IF inner[i].rule = "element" THEN i ELSE FindElement(inner, i + 1)

(***************************************************************************)
(* A text, as Grammar::parse(Rule::xml, text) sees it: parses is whether   *)
(* the grammar matches, pairs the Pairs it returns.                        *)
(***************************************************************************)
Parsed(pairs) == [parses |-> TRUE, pairs |-> pairs]
Unparseable == [parses |-> FALSE, pairs |-> <<>>]

parse_xml(input) ==
    IF ~input.parses
    THEN Ret(Err(SyntaxError), <<>>)
    ELSE IF input.pairs = <<>>
    THEN Ret(Err(SyntaxError), <<>>)
    ELSE LET root == input.pairs[1]
             k == FindElement(root.inner, 1)
         IN  IF k = 0
             THEN Ret(Err(SyntaxError), <<>>)
             ELSE parse_element(root.inner[k], <<k>>)

(***************************************************************************)
(* A file: fs::read_to_string(path) fails, or gives the file's text.       *)
(***************************************************************************)
File(readable, data) == [readable |-> readable, data |-> data]

\* from_path that reports a failed read as a syntax error
from_path_unreadable_is_syntax(file) ==
    IF ~file.readable
    THEN Ret(Err(SyntaxError), <<>>)
    ELSE parse_xml(file.data)

from_path(file) ==
    IF ~file.readable
    THEN Ret(Err(IoError), <<>>)
    ELSE parse_xml(file.data)

(***************************************************************************)
(* The queries.  A reference to a node of the tree is the node's path: the *)
(* indices of the children that lead to it from the receiver.              *)
(***************************************************************************)
Some(s) == [some |-> TRUE, val |-> s]
None == [some |-> FALSE, val |-> <<>>]

RECURSIVE get_contents_of(_, _)
RECURSIVE first_child_contents(_, _, _)

\* for child in &self.children { if let Some(found) = ... { return Some(found) } }
first_child_contents(children, i, tag) ==
    IF i > Len(children) THEN None
    ELSE LET found == get_contents_of(children[i], tag)
         IN  IF found.some THEN found
             ELSE first_child_contents(children, i + 1, tag)

\* contents_match without the test of the content
contents_match_by_name(node, tag) == node.name = tag

\* if self.name == tag && !self.content.is_empty()
contents_match(node, tag) == node.name = tag /\ node.content # <<>>

get_contents_of(node, tag) ==
    IF contents_match(node, tag)
    THEN Some(node.content)
    ELSE first_child_contents(node.children, 1, tag)

RECURSIVE get_nodes(_, _, _)
RECURSIVE extend_children(_, _, _, _)

\* for child in &self.children { results.extend(child.get_nodes(tag)) }
extend_children(children, i, tag, path) ==
    IF i > Len(children) THEN <<>>
    ELSE get_nodes(children[i], tag, Append(path, i))
         \o extend_children(children, i + 1, tag, path)

\* push_self with the condition of get_contents_of
push_self_with_content(node, tag, path) ==
    IF node.name = tag /\ node.content # <<>> THEN <<path>> ELSE <<>>

\* if self.name == tag { results.push(self) }
push_self(node, tag, path) == IF node.name = tag THEN <<path>> ELSE <<>>

get_nodes(node, tag, path) ==
    push_self(node, tag, path) \o extend_children(node.children, 1, tag, path)

(***************************************************************************)
(* The production trees of the grammar (grammar section of the             *)
(* specification):                                                         *)
(*   document          := declaration? element                             *)
(*   element           := full_element | empty_element_tag | comment       *)
(*   full_element      := opening_tag (content | element)* closing_tag     *)
(*   opening_tag       := "<" name attribute* ">"                          *)
(*   closing_tag       := "</" name ">"                                    *)
(*   empty_element_tag := "<" name attribute* "/>"                         *)
(*   attribute         := name "=" quoted value                            *)
(*   comment           := "<!--" text "-->"                                *)
(*   content           := a run of characters without "<"                  *)
(* Whitespace between tokens is skipped; the builder filters WHITESPACE    *)
(* pairs, so they are put where the grammar skips whitespace.              *)
(***************************************************************************)
NamePair(n) == Pair("name", n, <<>>)
\* the attribute's second token: the value with its quotes
ValuePair(text) == Pair("value", <<Quote>> \o text \o <<Quote>>, <<>>)
AttributePair(k, text) == Pair("attribute", <<>>, <<NamePair(k), ValuePair(text)>>)
Whitespace == Pair("WHITESPACE", <<" ">>, <<>>)
OpeningTag(n, attrs) == Pair("opening_tag", <<>>, <<NamePair(n)>> \o attrs)
ClosingTag(n) == Pair("closing_tag", <<>>, <<NamePair(n)>>)
EmptyElementTag(n, attrs) == Pair("empty_element_tag", <<>>, <<NamePair(n)>> \o attrs)
Comment(text) ==
    Pair("comment", <<"<", "!", "-", "-">> \o text \o <<"-", "-", ">">>, <<>>)
Content(text) == Pair("content", text, <<>>)
\* closing is the sequence of closing_tag productions that ends the element
FullElement(opening, items, closing) ==
    Pair("full_element", <<>>, <<opening>> \o items \o closing)
Element(alternative) == Pair("element", <<>>, <<alternative>>)
Declaration == Pair("declaration", <<>>, <<>>)
Document(prolog, element) == Pair("xml", <<>>, prolog \o <<element>>)

\* name := a non-empty run of letters, digits, "_", "-", ".", ":"
IsNameChar(c) ==
    c \in {"a", "b", "c", "e", "k", "m", "n", "o", "r", "t", "_", "-", ".", ":"}
IsName(s) == s # <<>> /\ \A i \in 1..Len(s) : IsNameChar(s[i])

\* The sequences over S of length at most n.
RECURSIVE SeqsUpTo(_, _)
SeqsUpTo(S, n) ==
    IF n = 0 THEN {<<>>}
    ELSE LET shorter == SeqsUpTo(S, n - 1)
         IN  shorter \cup {Append(q, x) : q \in {r \in shorter : Len(r) = n - 1}, x \in S}

(***************************************************************************)
(* The documents of n productions over a profile p: p.tags are the         *)
(* (opening_tag, closing) pairs of its full elements, p.leaves its         *)
(* elements without inner items, p.runs its other items (content).         *)
(***************************************************************************)
Profile(tags, leaves, runs) == [tags |-> tags, leaves |-> leaves, runs |-> runs]

\* The items of size k, given the elements of each size below or at k.
ItemsOfSize(p, elems, k) == elems[k] \cup (IF k = 1 THEN p.runs ELSE {})

\* The sequences of items of n productions in all; seqs[j + 1] holds those of j.
ItemSeqs(p, elems, seqs, n) ==
    UNION { LET firsts == ItemsOfSize(p, elems, k)
                rests == seqs[n - k + 1]
            IN  { <<it>> \o rest : it \in firsts, rest \in rests } : k \in 1..n }

\* The elements of n productions, given the item sequences of n - 1.
ElementsOfSize(p, seqs, n) ==
    (IF n = 1 THEN p.leaves ELSE {})
    \cup LET inners == seqs[n]
         IN  { Element(FullElement(t[1], items, t[2])) : t \in p.tags, items \in inners }

\* The table of the elements of each size from 1 to n, built from size 1 up.
RECURSIVE ElementTable(_, _, _, _)
ElementTable(p, elems, seqs, n) ==
    IF Len(elems) >= n THEN elems
    ELSE LET k == Len(elems) + 1
             grown == Append(elems, ElementsOfSize(p, seqs, k))
         IN  ElementTable(p, grown, Append(seqs, ItemSeqs(p, grown, seqs, k)), n)

ElementsUpTo(p, n) ==
    LET table == ElementTable(p, <<>>, <<{<<>>}>>, n)
    IN  UNION { table[k] : k \in 1..n }

\* nested full elements, each closed by its own name or by one of two others
StructProfile ==
    Profile({ <<OpeningTag(NameA, <<>>), <<ClosingTag(c)>>>> : c \in {NameA, NameB, NameR} },
            {}, {})

\* text runs, comments and empty elements inside well-formed elements
ContentProfile ==
    Profile({ <<OpeningTag(NameR, <<>>), <<ClosingTag(NameR)>>>> },
            { Element(Comment(<<" ", "n", " ">>)), Element(EmptyElementTag(NameA, <<>>)) },
            { Content(<<" ", "x", " ", "y", " ">>), Content(<<" ">>), Content(<<"z">>) })

\* equal names at several places, with and without content
QueryProfile ==
    Profile({ <<OpeningTag(n, <<>>), <<ClosingTag(n)>>>> : n \in {NameA, NameComment} },
            { Element(Comment(<<"z">>)), Element(EmptyElementTag(NameA, <<>>)) },
            { Content(<<"z">>) })

Attributes ==
    { AttributePair(k, v) : k \in {NameK, NameA}, v \in {<<>>, <<" ", "v">>} }

\* a WHITESPACE pair before each attribute
RECURSIVE Spaced(_)
Spaced(attrs) ==
    IF attrs = <<>> THEN <<>>
    ELSE <<Whitespace, Head(attrs)>> \o Spaced(Tail(attrs))

AttrLists ==
    LET lists == SeqsUpTo(Attributes, MaxAttrs)
    IN  lists \cup { Spaced(l) : l \in lists }

AttrProfile ==
    Profile({ <<OpeningTag(NameR, l), <<ClosingTag(NameR)>>>> : l \in AttrLists },
            { Element(EmptyElementTag(NameA, l)) : l \in AttrLists },
            {})

\* tags with attributes, as the root or as the only child of a plain root
AttrElements ==
    LET tagged == ElementsUpTo(AttrProfile, 1)
    IN  tagged \cup
        { Element(FullElement(OpeningTag(NameR, <<>>), <<e>>, <<ClosingTag(NameR)>>)) :
            e \in tagged }

\* A file that holds the text of a document: what Grammar::parse returns is
\* the document's pair.
DocumentFile(prolog, e) == File(TRUE, Parsed(<<Document(prolog, e)>>))

\* The files: one that cannot be read, one whose text the grammar rejects
\* (it stands for all of them), and one for each document.
StructFiles == { DocumentFile(<<>>, e) : e \in ElementsUpTo(StructProfile, MaxNodes) }
ContentFiles == { DocumentFile(<<>>, e) : e \in ElementsUpTo(ContentProfile, MaxNodes) }
QueryFiles == { DocumentFile(<<>>, e) : e \in ElementsUpTo(QueryProfile, MaxNodes) }
AttrFiles == { DocumentFile(<<>>, e) : e \in AttrElements }
DeclaredFiles ==
    { DocumentFile(<<Declaration>>, e) : e \in ElementsUpTo(ContentProfile, 2) }
OtherFiles == {File(FALSE, Unparseable), File(TRUE, Unparseable)}

\* The tags asked for.
Tags == {NameA, NameR, NameComment}

(***************************************************************************)
(* The state: a file, the entry point that was called on it (call), what   *)
(* the call returned (result) and the query made on the returned tree.     *)
(***************************************************************************)
VARIABLES file, call, result, query

vars == <<file, call, result, query>>

NoResult == Ret([tag |-> "None", node |-> NoNode, err |-> NoError], <<>>)
NoQuery == [kind |-> "none", tag |-> <<>>, nodes |-> <<>>, contents |-> None]

Init ==
    /\ \/ file \in OtherFiles
       \/ file \in StructFiles
       \/ file \in ContentFiles
       \/ file \in QueryFiles
       \/ file \in AttrFiles
       \/ file \in DeclaredFiles
    /\ call = "none"
    /\ result = NoResult
    /\ query = NoQuery

\* parse_xml(&text), on the text of a file that can be read
ParseXml ==
    /\ call = "none"
    /\ file.readable
    /\ call' = "parse_xml"
    /\ result' = parse_xml(file.data)
    /\ UNCHANGED <<file, query>>

\* XmlNode::from_path(path)
FromPath ==
    /\ call = "none"
    /\ call' = "from_path"
    /\ result' = from_path(file)
    /\ UNCHANGED <<file, query>>

\* tree.get_nodes(tag) on the returned tree
GetNodes(tag) ==
    /\ result.res.tag = "Ok"
    /\ query.kind = "none"
    /\ query' = [kind |-> "get_nodes", tag |-> tag,
                 nodes |-> get_nodes(result.res.node, tag, <<>>),
                 contents |-> None]
    /\ UNCHANGED <<file, call, result>>

\* tree.get_contents_of(tag) on the returned tree
GetContentsOf(tag) ==
    /\ result.res.tag = "Ok"
    /\ query.kind = "none"
    /\ query' = [kind |-> "get_contents_of", tag |-> tag,
                 nodes |-> <<>>,
                 contents |-> get_contents_of(result.res.node, tag)]
    /\ UNCHANGED <<file, call, result>>

Next ==
    \/ ParseXml
    \/ FromPath
    \/ \E tag \in Tags : GetNodes(tag)
    \/ \E tag \in Tags : GetContentsOf(tag)

Spec == Init /\ [][Next]_vars

(***************************************************************************)
(* What the claims speak of, read off the input and the returned tree      *)
(* without the builder.                                                    *)
(***************************************************************************)
\* The document's root pair and its element.
Root == file.data.pairs[1]
RootElement == Root.inner[Len(Root.inner)]

RECURSIVE PairAt(_, _)
PairAt(pair, path) ==
    IF path = <<>> THEN pair ELSE PairAt(pair.inner[Head(path)], Tail(path))

RECURSIVE PathsOf(_, _)
PathsOf(pair, path) ==
    {path} \cup UNION { PathsOf(pair.inner[i], Append(path, i)) : i \in 1..Len(pair.inner) }

\* Document order: p starts before q (a production starts before its inner ones).
RECURSIVE Before(_, _)
Before(p, q) ==
    IF p = <<>> THEN q # <<>>
    ELSE IF q = <<>> THEN FALSE
    ELSE IF Head(p) = Head(q) THEN Before(Tail(p), Tail(q))
    ELSE Head(p) < Head(q)

\* The name production of a tag.
NameIn(tag) ==
    LET i == CHOOSE j \in 1..Len(tag.inner) : tag.inner[j].rule = "name"
    IN  tag.inner[i].str

HasRule(pair, rule) == \E i \in 1..Len(pair.inner) : pair.inner[i].rule = rule

\* The paths of the full_element productions of the document.
FullElements == { p \in PathsOf(Root, <<>>) : PairAt(Root, p).rule = "full_element" }

OpenName(p) == NameIn(PairAt(Root, p).inner[1])
\* a closed full_element ends with its closing_tag
Closed(p) == LET full == PairAt(Root, p) IN full.inner[Len(full.inner)].rule = "closing_tag"
ClosingPath(p) == Append(p, Len(PairAt(Root, p).inner))
CloseName(p) == NameIn(PairAt(Root, ClosingPath(p)))
Mismatched(p) == Closed(p) /\ HasRule(PairAt(Root, ClosingPath(p)), "name")
                           /\ CloseName(p) # OpenName(p)

\* The full_element at the root of the document, if the root is one.
RootFull == <<Len(Root.inner), 1>>
RootIsFull == RootElement.inner[1].rule = "full_element"

IsElementPair(pair) == pair.rule = "element"
\* The nested elements of a full_element, in document order.
ElementItems(full) == SelectSeq(full.inner, IsElementPair)

\* The nodes of a tree that was built from element e, each with the production
\* it stands for and its path in the tree, when the tree has e's shape.
RECURSIVE Lowered(_, _, _)
Lowered(e, node, path) ==
    LET alt == e.inner[1]
        nested == IF alt.rule = "full_element" THEN ElementItems(alt) ELSE <<>>
    IN  {[prod |-> alt, node |-> node, path |-> path]}
        \cup UNION { Lowered(nested[i], node.children[i], Append(path, i)) :
                        i \in 1..(IF Len(nested) < Len(node.children)
                                  THEN Len(nested) ELSE Len(node.children)) }

\* node has the shape of element e: one node for each element production.
RECURSIVE Represents(_, _)
Represents(e, node) ==
    LET alt == e.inner[1]
        nested == IF alt.rule = "full_element" THEN ElementItems(alt) ELSE <<>>
    IN  /\ Len(node.children) = Len(nested)
        /\ alt.rule \in {"full_element", "empty_element_tag"}
              => node.name = NameIn(IF alt.rule = "full_element" THEN alt.inner[1] ELSE alt)
        /\ \A i \in 1..Len(nested) : Represents(nested[i], node.children[i])

\* The paths of the nodes of a tree.
RECURSIVE NodePaths(_, _)
NodePaths(node, path) ==
    {path} \cup UNION { NodePaths(node.children[i], Append(path, i)) :
                           i \in 1..Len(node.children) }

RECURSIVE NodeAt(_, _)
NodeAt(node, path) ==
    IF path = <<>> THEN node ELSE NodeAt(node.children[Head(path)], Tail(path))

\* parse_xml has just returned, on a text the grammar accepts
Parses == file.readable /\ file.data.parses
ParseXmlReturned == call = "parse_xml" /\ Parses /\ query.kind = "none"

Range(q) == { q[i] : i \in 1..Len(q) }

(***************************************************************************)
(* C1                                                                      *)
(***************************************************************************)
\* C1, as stated: for every accepted input <a>...</b> whose outermost names
\* differ, whatever is nested in it, parse_xml fails with
\* TagMismatch{opening: a, ending: b}.
C1_AsStated ==
    (ParseXmlReturned /\ RootIsFull /\ Mismatched(RootFull))
        => result.res = Err(TagMismatch(OpenName(RootFull), CloseName(RootFull)))

\* C1, amended: for every accepted input <a>...</b> whose outermost names
\* differ and in which no nested full_element has differing names, parse_xml
\* fails with TagMismatch{opening: a, ending: b} and nothing else.
C1_TagMismatchOfRoot ==
    (/\ ParseXmlReturned
     /\ RootIsFull
     /\ Mismatched(RootFull)
     /\ \A p \in FullElements \ {RootFull} : ~Mismatched(p))
        => result.res = Err(TagMismatch(OpenName(RootFull), CloseName(RootFull)))

\* an outermost mismatch around well-formed nested elements has been reported
C1_Witness ==
    /\ ParseXmlReturned
    /\ RootIsFull
    /\ Mismatched(RootFull)
    /\ Cardinality(FullElements) >= 3
    /\ \A p \in FullElements \ {RootFull} : ~Mismatched(p)
    /\ result.res.err.kind = "TagMismatch"

(***************************************************************************)
(* C2                                                                      *)
(***************************************************************************)
\* C2: parse_xml returns no partially valid tree.  When it returns Ok(node),
\* every full_element of the input, at every depth, has equal opening and
\* closing names and the tree has exactly one node for each element
\* production; when some full_element has differing names it returns an
\* error and no node.
C2_NoPartialTree ==
    ParseXmlReturned =>
        /\ result.res.tag = "Ok" =>
              /\ \A p \in FullElements : ~Mismatched(p)
              /\ Represents(RootElement, result.res.node)
              /\ Cardinality(NodePaths(result.res.node, <<>>))
                    = Cardinality({ p \in PathsOf(Root, <<>>) :
                                       PairAt(Root, p).rule = "element" })
        /\ (\E p \in FullElements : Mismatched(p)) =>
              /\ result.res.tag = "Err"
              /\ result.res.node = NoNode

\* a tree of three nested full elements has been returned
C2_Witness ==
    /\ ParseXmlReturned
    /\ result.res.tag = "Ok"
    /\ Cardinality(FullElements) >= 3
    /\ \E p \in NodePaths(result.res.node, <<>>) : Len(p) >= 2

(***************************************************************************)
(* C10                                                                     *)
(***************************************************************************)
\* The mismatched full_element whose closing tag comes first in the document.
FirstMismatched ==
    CHOOSE p \in FullElements :
        /\ Mismatched(p)
        /\ \A q \in FullElements :
              (Mismatched(q) /\ q # p) => Before(ClosingPath(p), ClosingPath(q))

\* C10: when some full_elements of an accepted document have differing names,
\* parse_xml reports the one whose closing tag comes first in document order,
\* and the builder stops at that closing tag: it is the last production
\* visited, and none after it is visited.
C10_FirstMismatchReported ==
    (ParseXmlReturned /\ \E p \in FullElements : Mismatched(p)) =>
        LET p == FirstMismatched
        IN  /\ result.res = Err(TagMismatch(OpenName(p), CloseName(p)))
            /\ result.visited # <<>>
            /\ result.visited[Len(result.visited)] = ClosingPath(p)
            /\ \A v \in Range(result.visited) :
                  v = ClosingPath(p) \/ Before(v, ClosingPath(p))

\* two mismatches closed by different names, one inside or before the other
C10_Witness ==
    /\ ParseXmlReturned
    /\ \E p, q \in FullElements :
          /\ Mismatched(p) /\ Mismatched(q)
          /\ CloseName(p) # CloseName(q)
          /\ \E r \in FullElements : Mismatched(r) /\ r \notin {p, q}
    /\ result.res.err.kind = "TagMismatch"
    /\ \E v \in PathsOf(Root, <<>>) : v \notin Range(result.visited)
                                      /\ PairAt(Root, v).rule = "element"

(***************************************************************************)
(* C3                                                                      *)
(***************************************************************************)
IsContentPair(pair) == pair.rule = "content"
\* The direct content runs of a full_element, in document order.
ContentRuns(full) == SelectSeq(full.inner, IsContentPair)

\* s without its leading and trailing whitespace: what lies between its first
\* and its last character that is not whitespace.
Stripped(s) ==
    LET solid == { i \in 1..Len(s) : ~IsWhitespace(s[i]) }
    IN  IF solid = {} THEN <<>>
        ELSE SubSeq(s, CHOOSE i \in solid : \A j \in solid : i <= j,
                       CHOOSE i \in solid : \A j \in solid : j <= i)

RECURSIVE ConcatStripped(_)
ConcatStripped(runs) ==
    IF runs = <<>> THEN <<>>
    ELSE Stripped(Head(runs).str) \o ConcatStripped(Tail(runs))

NoOuterWhitespace(s) ==
    s = <<>> \/ (~IsWhitespace(s[1]) /\ ~IsWhitespace(s[Len(s)]))

\* C3: the content of a node built from a full_element is the concatenation,
\* in document order, of its direct content runs, each trimmed on its own
\* (inner whitespace kept, nothing put between runs, nested text left out);
\* its children are the nested elements in document order; so no content of
\* a returned tree starts or ends with whitespace.
C3_ContentIsTrimmedRuns ==
    (ParseXmlReturned /\ result.res.tag = "Ok") =>
        /\ Represents(RootElement, result.res.node)
        /\ \A l \in Lowered(RootElement, result.res.node, <<>>) :
              /\ l.prod.rule = "full_element" =>
                    l.node.content = ConcatStripped(ContentRuns(l.prod))
              /\ NoOuterWhitespace(l.node.content)

\* two runs around a child, one of them with whitespace outside and inside
C3_Witness ==
    /\ ParseXmlReturned
    /\ result.res.tag = "Ok"
    /\ RootIsFull
    /\ LET full == RootElement.inner[1]
       IN  /\ Len(full.inner) = 5
           /\ full.inner[2].rule = "content"
           /\ full.inner[3].rule = "element"
           /\ full.inner[4].rule = "content"
           /\ full.inner[2].str = <<" ", "x", " ", "y", " ">>
           /\ full.inner[3].inner[1].rule = "full_element"
    /\ result.res.node.content = <<"x", " ", "y", "z">>

(***************************************************************************)
(* C4                                                                      *)
(***************************************************************************)
\* The nodes of the returned tree that are named tag.
Named(tag) ==
    { p \in NodePaths(result.res.node, <<>>) : NodeAt(result.res.node, p).name = tag }

\* C4: get_nodes(tag) returns exactly the nodes named tag, the receiver and
\* its descendants, each once, in depth-first pre-order, those with empty
\* content and those with equal contents included.
C4_GetNodesIsPreorderFilter ==
    query.kind = "get_nodes" =>
        /\ Range(query.nodes) = Named(query.tag)
        /\ Len(query.nodes) = Cardinality(Named(query.tag))
        /\ \A i, j \in 1..Len(query.nodes) :
              i < j => Before(query.nodes[i], query.nodes[j])

\* three matches beside a node of another name: one inside another, one with
\* empty content, two with equal contents
C4_Witness ==
    /\ query.kind = "get_nodes"
    /\ Len(query.nodes) >= 3
    /\ \E i, j \in 1..Len(query.nodes) :
          /\ i < j
          /\ SubSeq(query.nodes[j], 1, Len(query.nodes[i])) = query.nodes[i]
    /\ \E i \in 1..Len(query.nodes) :
          NodeAt(result.res.node, query.nodes[i]).content = <<>>
    /\ \E i, j \in 1..Len(query.nodes) :
          /\ i < j
          /\ NodeAt(result.res.node, query.nodes[i]).content
                = NodeAt(result.res.node, query.nodes[j]).content
    /\ \E p \in NodePaths(result.res.node, <<>>) : p \notin Range(query.nodes)

(***************************************************************************)
(* C5                                                                      *)
(***************************************************************************)
\* The nodes named tag that have content.
NamedWithContent(tag) ==
    { p \in Named(tag) : NodeAt(result.res.node, p).content # <<>> }

\* C5: get_contents_of(tag) returns the content of the first node in
\* depth-first pre-order that is named tag and has non-empty content, and
\* None exactly when the tree has no such node.
C5_GetContentsOfIsFirstNonEmpty ==
    query.kind = "get_contents_of" =>
        LET found == NamedWithContent(query.tag)
        IN  IF found = {}
            THEN query.contents = None
            ELSE LET first == CHOOSE p \in found :
                                 \A q \in found : q = p \/ Before(p, q)
                 IN  query.contents = Some(NodeAt(result.res.node, first).content)

\* the content found lies below a node of that name with empty content
C5_Witness ==
    /\ query.kind = "get_contents_of"
    /\ query.contents.some
    /\ \E p \in Named(query.tag) :
          /\ NodeAt(result.res.node, p).content = <<>>
          /\ \A q \in NamedWithContent(query.tag) : Before(p, q)
    /\ \E p \in Named(query.tag) \ NamedWithContent(query.tag) :
          \E q \in NamedWithContent(query.tag) : Before(q, p)

(***************************************************************************)
(* C6                                                                      *)
(***************************************************************************)
\* C6: from_path returns IoError exactly when reading the file fails, and
\* then no other error; when the read succeeds its result is that of
\* parse_xml on the file's text; parse_xml itself never returns IoError.
C6_IoErrorIffReadFails ==
    /\ call = "from_path" =>
          /\ (result.res.tag = "Err" /\ result.res.err.kind = "IoError")
                <=> ~file.readable
          /\ ~file.readable => result.res = Err(IoError)
          /\ file.readable => result = parse_xml(file.data)
    /\ call = "parse_xml" =>
          ~(result.res.tag = "Err" /\ result.res.err.kind = "IoError")

\* from_path has failed on a file that cannot be read
C6_Witness ==
    /\ call = "from_path"
    /\ ~file.readable
    /\ result.res = Err(IoError)

(***************************************************************************)
(* C7                                                                      *)
(***************************************************************************)
\* The names of the tags of the document's elements.
ElementNames ==
    { NameIn(PairAt(Root, p)) :
        p \in { q \in PathsOf(Root, <<>>) :
                   PairAt(Root, q).rule \in {"opening_tag", "empty_element_tag"} } }

\* The nodes of the returned tree that stand for comment productions.
CommentNodes ==
    { l \in Lowered(RootElement, result.res.node, <<>>) : l.prod.rule = "comment" }

StartsWith(s, prefix) == Len(s) >= Len(prefix) /\ SubSeq(s, 1, Len(prefix)) = prefix
EndsWith(s, suffix) ==
    Len(s) >= Len(suffix) /\ SubSeq(s, Len(s) - Len(suffix) + 1, Len(s)) = suffix

\* C7: a comment production becomes a node named "#comment" whose content is
\* the comment's raw text with its delimiters and whose attributes and
\* children are empty; "#comment" is no name of the grammar, so get_nodes(tag)
\* for the tag of an element of the input returns no comment node.
C7_CommentSentinel ==
    /\ ~IsName(COMMENT_NAME)
    /\ (Parses /\ result.res.tag = "Ok") =>
          /\ \A n \in ElementNames : IsName(n)
          /\ \A l \in CommentNodes :
                /\ l.node = XmlNode(COMMENT_NAME, l.prod.str, <<>>, <<>>)
                /\ StartsWith(l.node.content, <<"<", "!", "-", "-">>)
                /\ EndsWith(l.node.content, <<"-", "-", ">">>)
          /\ (query.kind = "get_nodes" /\ query.tag \in ElementNames) =>
                \A l \in CommentNodes : l.path \notin Range(query.nodes)

\* the nodes of an element named comment were asked for, in a tree that also
\* holds a comment
C7_Witness ==
    /\ Parses
    /\ result.res.tag = "Ok"
    /\ query.kind = "get_nodes"
    /\ query.tag = NameComment
    /\ query.tag \in ElementNames
    /\ query.nodes # <<>>
    /\ CommentNodes # {}

(***************************************************************************)
(* C9                                                                      *)
(***************************************************************************)
IsAttributePair(pair) == pair.rule = "attribute"
\* The attribute productions of a tag, in order of appearance.
AttributeProductions(tag) == SelectSeq(tag.inner, IsAttributePair)

\* The tag of an element production: its opening tag, or the empty-element tag.
TagOf(prod) == IF prod.rule = "full_element" THEN prod.inner[1] ELSE prod

\* C9: the attributes of the node of an opening tag or empty-element tag are
\* one (key, value) pair for each attribute production, in order, duplicate
\* keys kept; the key is the production's first inner token and the value its
\* second with exactly one pair of surrounding double quotes removed and
\* nothing else changed.
C9_AttributesInOrder ==
    (ParseXmlReturned /\ result.res.tag = "Ok") =>
        \A l \in Lowered(RootElement, result.res.node, <<>>) :
            l.prod.rule \in {"full_element", "empty_element_tag"} =>
                LET prods == AttributeProductions(TagOf(l.prod))
                IN  /\ Len(l.node.attributes) = Len(prods)
                    /\ \A i \in 1..Len(prods) :
                          LET token == prods[i].inner[2].str
                          IN  /\ l.node.attributes[i].key = prods[i].inner[1].str
                              /\ <<Quote>> \o l.node.attributes[i].value \o <<Quote>>
                                    = token

\* an opening tag with two attributes of the same key and different values
C9_Witness ==
    /\ ParseXmlReturned
    /\ result.res.tag = "Ok"
    /\ RootIsFull
    /\ HasRule(RootElement.inner[1].inner[1], "WHITESPACE")
    /\ Len(result.res.node.attributes) = 2
    /\ result.res.node.attributes[1].key = result.res.node.attributes[2].key
    /\ result.res.node.attributes[1].value = <<" ", "v">>
    /\ result.res.node.attributes[2].value = <<>>

(***************************************************************************)
(* The builder on its own.  parse_element takes any Pair: here it is given *)
(* trees the grammar section rules out, a full_element without closing_tag *)
(* (the loop runs out), an element whose inner pair is none of the three   *)
(* alternatives, a closing_tag without a name, next to well-formed and     *)
(* mismatched ones; WHITESPACE pairs stand between the items.              *)
(***************************************************************************)
BuilderProfile ==
    Profile({ <<OpeningTag(NameA, <<>>), c>> :
                 c \in { <<ClosingTag(NameA)>>, <<ClosingTag(NameB)>>, <<>>,
                         <<Pair("closing_tag", <<>>, <<>>)>> } },
            { Element(Content(<<"z">>)) },
            { Content(<<"z">>), Whitespace })

BuilderFiles ==
    { DocumentFile(<<>>, e) : e \in ElementsUpTo(BuilderProfile, MaxBuilderNodes) }

InitBuilder ==
    /\ \/ file \in OtherFiles
       \/ file \in BuilderFiles
    /\ call = "none"
    /\ result = NoResult
    /\ query = NoQuery

SpecBuilder == InitBuilder /\ [][Next]_vars

(***************************************************************************)
(* C8                                                                      *)
(***************************************************************************)
\* A full_element none of whose inner productions is a closing_tag.
Unclosed(p) == ~HasRule(PairAt(Root, p), "closing_tag")
\* where its loop runs out: past its last inner production
ExhaustedAt(p) == Append(p, Len(PairAt(Root, p).inner) + 1)

\* The places of the document where the builder cannot go on: a loop that
\* runs out, a closing tag of another name or of none, an element that is
\* none of the three alternatives.
Failures ==
    { ExhaustedAt(p) : p \in { q \in FullElements : Unclosed(q) } }
    \cup { ClosingPath(p) :
              p \in { q \in FullElements :
                         /\ Closed(q)
                         /\ \/ ~HasRule(PairAt(Root, ClosingPath(q)), "name")
                            \/ Mismatched(q) } }
    \cup { Append(p, 1) :
              p \in { q \in PathsOf(Root, <<>>) :
                         /\ PairAt(Root, q).rule = "element"
                         /\ PairAt(Root, q).inner[1].rule
                               \notin {"full_element", "empty_element_tag", "comment"} } }

\* The builder reaches the end of an unclosed full_element before any other
\* failure.
LoopRunsOut ==
    \E p \in FullElements :
        /\ Unclosed(p)
        /\ \A f \in Failures : f = ExhaustedAt(p) \/ Before(ExhaustedAt(p), f)

=============================================================================
